---- MODULE Spec2Model ----
(***************************************************************************)
(* Model of ecl2df/gruptree2df.py: deck2df scans the keywords of a parsed  *)
(* Eclipse deck once and accumulates the group tree (GRUPTREE, WELSPECS)   *)
(* and the network attributes (GRUPNET), dumping the whole tree as rows at *)
(* every date keyword (START, DATES, TSTEP) after a change, and once more  *)
(* at the end of the deck.                                                 *)
(*                                                                         *)
(* Representation.  A deck item is a sequence of values (rec[k][0] in the  *)
(* code is rec[k][1] here), a record is a function from item names or      *)
(* positions to items.  A datetime.date is the tuple <<year, month, day>>, *)
(* Python's None is the empty tuple.  A dict is the sequence of its        *)
(* entries in insertion order.  A NaN cell of a DataFrame row is a column  *)
(* that is absent from the row's ATTRS function.                           *)
(***************************************************************************)
EXTENDS Integers, Sequences, FiniteSets, TLC

\* Longest deck (number of keywords) that is scanned.
MaxDeck == 4
\* Most records in one DATES, TSTEP, GRUPTREE, WELSPECS or GRUPNET keyword.
MaxRecs == 2
\* Most calls of deck2df on one deck.
MaxCalls == 2

None == <<>>
NaT == <<>>

\* gruptree2df.py:24-32
GRUPNETKEYS ==
    <<"NAME", "TERMINAL_PRESSURE", "VFP_TABLE", "ALQ", "SUB_SEA_MANIFOLD",
      "LIFT_GAS_FLOW_THROUGH", "ALQ_SURFACE_EQV">>

\* datetime.date(year=1900, month=1, day=1), gruptree2df.py:88
Epoch == <<1900, 1, 1>>

(***************************************************************************)
(* Calendar arithmetic of datetime.date and datetime.timedelta.            *)
(***************************************************************************)
\* common.parse_ecl_month: the month number of an Eclipse month name.
ParseEclMonth(m) ==
    CASE m = "JAN" -> 1 [] m = "FEB" -> 2 [] m = "MAR" -> 3 [] m = "APR" -> 4
      [] m = "MAY" -> 5 [] m = "JUN" -> 6 [] m = "JUL" -> 7 [] m = "JLY" -> 7
      [] m = "AUG" -> 8 [] m = "SEP" -> 9 [] m = "OCT" -> 10
      [] m = "NOV" -> 11 [] m = "DEC" -> 12

IsLeap(y) == (y % 4 = 0) /\ ((y % 100 # 0) \/ (y % 400 = 0))

DaysInMonth(y, m) ==
    IF m = 2 THEN (IF IsLeap(y) THEN 29 ELSE 28)
    ELSE IF m \in {4, 6, 9, 11} THEN 30 ELSE 31

NextDay(d) ==
    IF d[3] < DaysInMonth(d[1], d[2]) THEN <<d[1], d[2], d[3] + 1>>
    ELSE IF d[2] < 12 THEN <<d[1], d[2] + 1, 1>>
    ELSE <<d[1] + 1, 1, 1>>

PrevDay(d) ==
    IF d[3] > 1 THEN <<d[1], d[2], d[3] - 1>>
    ELSE IF d[2] > 1 THEN <<d[1], d[2] - 1, DaysInMonth(d[1], d[2] - 1)>>
    ELSE <<d[1] - 1, 12, 31>>

RECURSIVE AddDays_Back(_, _)
\* The timedelta subtracted.
AddDays_Back(d, n) ==
    IF n = 0 THEN d
    ELSE IF n > 0 THEN AddDays_Back(PrevDay(d), n - 1)
    ELSE AddDays_Back(NextDay(d), n + 1)

RECURSIVE AddDays(_, _)
\* date + datetime.timedelta(days=n)
AddDays(d, n) ==
    IF n = 0 THEN d
    ELSE IF n > 0 THEN AddDays(NextDay(d), n - 1)
    ELSE AddDays(PrevDay(d), n + 1)

\* a < b on datetime.date
DateLess(a, b) ==
    \/ a[1] < b[1]
    \/ a[1] = b[1] /\ a[2] < b[2]
    \/ a[1] = b[1] /\ a[2] = b[2] /\ a[3] < b[3]

DateLeq(a, b) == a = b \/ DateLess(a, b)

RECURSIVE Sum(_)
\* sum(steplist)
Sum(s) == IF s = <<>> THEN 0 ELSE s[1] + Sum(Tail(s))

\* The value is a datetime.date; None and a bool (a startdate that is no
\* date) are not.
IsDate(d) == Len(d) = 3

\* A Python bool where a date is expected.
Bool(b) == <<b>>

\* pd.to_datetime on a column of datetime.date: midnight of that day, NaT for None.
ToDatetime(d) == IF d = None THEN NaT ELSE <<d[1], d[2], d[3], 0, 0, 0>>

(***************************************************************************)
(* The dict currentedges, keyed by the tuple (child, parent).              *)
(***************************************************************************)
HasKey(edges, key) == \E i \in DOMAIN edges : edges[i].edge = key

\* A list of edges instead of a dict: every assignment appends.
SetEdge_Append(edges, key, value) ==
    Append(edges, [edge |-> key, value |-> value])

\* currentedges[key] = value: a new key is appended, an existing key keeps
\* its place and takes the new value.
SetEdge(edges, key, value) ==
    IF HasKey(edges, key)
    THEN [i \in DOMAIN edges |->
            IF edges[i].edge = key THEN [edge |-> key, value |-> value]
            ELSE edges[i]]
    ELSE Append(edges, [edge |-> key, value |-> value])

RECURSIVE RecordEdges_ByChild(_, _, _)
\* A dict keyed by the child alone: the edge of a child replaces the edge
\* the child had.
RecordEdges_ByChild(edges, recs, value) ==
    IF recs = <<>> THEN edges
    ELSE RecordEdges_ByChild(
            Append(SelectSeq(edges, LAMBDA e : e.edge[1] # recs[1][1][1]),
                   [edge |-> <<recs[1][1][1], recs[1][2][1]>>, value |-> value]),
            Tail(recs), value)

RECURSIVE RecordEdges(_, _, _)
\* for edgerec in kw: currentedges[(edgerec[0][0], edgerec[1][0])] = value
RecordEdges(edges, recs, value) ==
    IF recs = <<>> THEN edges
    ELSE RecordEdges(SetEdge(edges, <<recs[1][1][1], recs[1][2][1]>>, value),
                     Tail(recs), value)

(***************************************************************************)
(* GRUPNET records and the DataFrame grupnet_df built from them.           *)
(***************************************************************************)
KeySet == {GRUPNETKEYS[i] : i \in DOMAIN GRUPNETKEYS}

\* The dict grupnet_data of one record: the items of the record that hold a
\* value.
GrupnetData(rec) ==
    [k \in {key \in KeySet : rec[key] # <<>>} |-> rec[k][1]]

RECURSIVE GrupnetDataOf(_)
GrupnetDataOf(recs) ==
    IF recs = <<>> THEN <<>>
    ELSE <<GrupnetData(recs[1])>> \o GrupnetDataOf(Tail(recs))

\* keep="first": index of the first record with the given NAME.
LastIndexOf_First(records, name) ==
    CHOOSE i \in DOMAIN records :
        /\ records[i]["NAME"] = name
        /\ \A j \in DOMAIN records : records[j]["NAME"] = name => j >= i

\* Index of the last record of the list with the given NAME.
LastIndexOf(records, name) ==
    CHOOSE i \in DOMAIN records :
        /\ records[i]["NAME"] = name
        /\ \A j \in DOMAIN records : records[j]["NAME"] = name => j <= i

\* The row of a record without its NAME, which becomes the index.
RowOf(data) == [k \in (DOMAIN data) \ {"NAME"} |-> data[k]]

\* The records of one NAME merged, a later value replacing an earlier one.
GrupnetDf_Merged(records) ==
    [name \in {records[i]["NAME"] : i \in DOMAIN records} |->
        [k \in UNION {(DOMAIN records[i]) \ {"NAME"} :
                        i \in {j \in DOMAIN records : records[j]["NAME"] = name}} |->
            records[CHOOSE i \in DOMAIN records :
                /\ records[i]["NAME"] = name /\ k \in DOMAIN records[i]
                /\ \A j \in DOMAIN records :
                      (records[j]["NAME"] = name /\ k \in DOMAIN records[j]) => j <= i][k]]]

\* pd.DataFrame(records).drop_duplicates(subset="NAME", keep="last")
\*   .set_index("NAME"): a function from the index to the row.
GrupnetDf(records) ==
    [name \in {records[i]["NAME"] : i \in DOMAIN records} |->
        RowOf(records[LastIndexOf(records, name)])]

\* A row without attribute columns.
NoAttrs == [k \in {} |-> 0]

\* pd.DataFrame(): no index.
EmptyDf == [name \in {} |-> NoAttrs]

(***************************************************************************)
(* The rows of one dump of the tree.                                       *)
(***************************************************************************)
\* rec_dict without the row of grupnet_df.
RecDict_Bare(d, e, df) ==
    [DATE |-> d, CHILD |-> e.edge[1], PARENT |-> e.edge[2], TYPE |-> e.value,
     ATTRS |-> NoAttrs]

\* rec_dict of one edge, with the row of its child in grupnet_df if any.
RecDict(d, e, df) ==
    [DATE |-> d, CHILD |-> e.edge[1], PARENT |-> e.edge[2], TYPE |-> e.value,
     ATTRS |-> IF e.edge[1] \in DOMAIN df THEN df[e.edge[1]] ELSE NoAttrs]

\* A dump of the newest edge alone.
DumpRows_Newest(d, edges, df) ==
    IF edges = <<>> THEN <<>> ELSE <<RecDict(d, edges[Len(edges)], df)>>

\* for edgename, value in currentedges.items(): gruptreerecords.append(...)
DumpRows(d, edges, df) == [i \in DOMAIN edges |-> RecDict(d, edges[i], df)]

(***************************************************************************)
(* The date keywords.                                                      *)
(***************************************************************************)
\* The condition of the dump at a date keyword.
Dumping(edges, fg, fw, fn) == Len(edges) > 0 /\ (fg \/ fw \/ fn)

\* The date the rows of a dump carry: the current date, 1900-01-01 if there
\* is none.
DumpDate(d) == IF d = None THEN Epoch ELSE d

\* The dump after the last keyword left out.
FinalDumping_Never(fg, fw, fn) == FALSE

\* The condition of the dump after the last keyword.
FinalDumping(fg, fw, fn) == fg \/ fw

\* datetime.date(year=year, month=parse_ecl_month(month), day=day)
DateOfRec(rec) == <<rec.YEAR[1], ParseEclMonth(rec.MONTH[1]), rec.DAY[1]>>

RECURSIVE ParseDates(_, _)
\* for rec in kw: date = datetime.date(...), for DATES and START
ParseDates(d, recs) ==
    IF recs = <<>> THEN d ELSE ParseDates(DateOfRec(recs[1]), Tail(recs))

\* Only a negative sum taken as invalid.
InvalidTstep_Negative(days) == days < 0

\* The test that makes a TSTEP record fatal.
InvalidTstep(days) == days <= 0

RECURSIVE Advance_SkipInvalid(_, _)
\* An invalid record skipped (continue) instead of ending the call.
Advance_SkipInvalid(d, recs) ==
    IF recs = <<>> THEN [date |-> d, outcome |-> "ok"]
    ELSE LET days == Sum(recs[1][1]) IN
         IF InvalidTstep(days) THEN Advance_SkipInvalid(d, Tail(recs))
         ELSE IF ~IsDate(d) THEN [date |-> d, outcome |-> "TypeError"]
         ELSE Advance_SkipInvalid(AddDays(d, days), Tail(recs))

RECURSIVE Advance(_, _)
\* for rec in kw, for TSTEP: the date after the records and how the loop
\* ended: "ok", "return" (the critical return) or "TypeError" (None +=
\* timedelta, and the same for a bool).
Advance(d, recs) ==
    IF recs = <<>> THEN [date |-> d, outcome |-> "ok"]
    ELSE LET days == Sum(recs[1][1]) IN
         IF InvalidTstep(days) THEN [date |-> d, outcome |-> "return"]
         ELSE IF ~IsDate(d) THEN [date |-> d, outcome |-> "TypeError"]
         ELSE Advance(AddDays(d, days), Tail(recs))

(***************************************************************************)
(* Decks.                                                                  *)
(***************************************************************************)
\* The runs of 1..n consecutive elements of the sequence s.
Runs(s, n) ==
    {SubSeq(s, i, j) : <<i, j>> \in {<<i, j>> \in (DOMAIN s) \X (DOMAIN s) :
                                        i <= j /\ j - i + 1 <= n}}

Kw(name, recs) == [name |-> name, recs |-> recs]

DateRec(day, month, year) ==
    [DAY |-> <<day>>, MONTH |-> <<month>>, YEAR |-> <<year>>]

\* The records of TSTEP: item 0 is the list of steps.
StepRec(steplist) == <<steplist>>

EdgeRec(child, parent) == << <<child>>, <<parent>> >>

\* The items of a GRUPNET record; the items after ALQ are left empty.
NetRec(name, vfp, alq) ==
    [NAME |-> <<name>>, TERMINAL_PRESSURE |-> <<>>, VFP_TABLE |-> vfp,
     ALQ |-> alq, SUB_SEA_MANIFOLD |-> <<>>, LIFT_GAS_FLOW_THROUGH |-> <<>>,
     ALQ_SURFACE_EQV |-> <<>>]

\* The records of a keyword of the deck are a run of records of these lists.
DateList ==
    <<DateRec(1, "JAN", 2020), DateRec(1, "FEB", 2020), DateRec(1, "JAN", 2020)>>

StepList == <<StepRec(<<10>>), StepRec(<<5, -5>>), StepRec(<<10>>)>>

GruptreeList ==
    <<EdgeRec("W1", "GRP1"), EdgeRec("W1", "GRP2"), EdgeRec("W1", "GRP1")>>

WelspecsList == <<EdgeRec("W2", "GRP1"), EdgeRec("W1", "GRP1")>>

GrupnetList ==
    <<NetRec("GRP1", <<>>, <<5>>), NetRec("GRP1", <<9>>, <<>>),
      NetRec("GRP2", <<>>, <<7>>), NetRec("GRP1", <<>>, <<5>>)>>

\* The group tree of the decks with GRUPNET.
GroupList ==
    <<EdgeRec("GRP1", "FIELD"), EdgeRec("GRP2", "FIELD"), EdgeRec("GRP1", "FIELD")>>

Kws(name, list, n) == {Kw(name, recs) : recs \in Runs(list, n)}

StartKws == Kws("START", DateList, 1)
DatesKws == Kws("DATES", DateList, MaxRecs)
TstepKws == Kws("TSTEP", StepList, MaxRecs)
GruptreeKws == Kws("GRUPTREE", GruptreeList, MaxRecs)
WelspecsKws == Kws("WELSPECS", WelspecsList, MaxRecs)
OtherKws == {Kw("WCONPROD", <<>>)}
GrupnetKws == Kws("GRUPNET", GrupnetList, MaxRecs)
GroupKws == Kws("GRUPTREE", GroupList, MaxRecs)
OneDateKws == Kws("DATES", DateList, 1)

StartDates == {None, <<2020, 1, 1>>}

(***************************************************************************)
(* State: the arguments and the local variables of deck2df, the position   *)
(* of its loop, and what it returned.                                      *)
(***************************************************************************)
VARIABLES
    deck, startdate, welspecs,
    date, gruptreerecords, grupnetrecords, currentedges, grupnet_df,
    found_gruptree, found_welspecs, found_grupnet,
    pc, pos, ret, calls, prev,
    emissions, treerows, trees, dictdate, dictret

args == <<deck, startdate, welspecs>>
locals == <<date, gruptreerecords, grupnetrecords, currentedges, grupnet_df,
            found_gruptree, found_welspecs, found_grupnet>>
\* The argument and the result of gruptreedf2dict, the date argument and the
\* result of gruptree2dict.
uses == <<treerows, trees, dictdate, dictret>>
vars == <<args, locals, pc, pos, ret, calls, prev, emissions, uses>>

NoRet == [kind |-> "none yet", rows |-> <<>>]

\* gruptreedf2dict not called yet.
NoTrees == [maps |-> <<>>, subtrees |-> <<>>]

\* gruptree2dict not called yet.
NoDict == [kind |-> "none yet", trees |-> NoTrees]

\* Before the first call: the arguments are chosen, the deck is fed keyword
\* by keyword while deck2df scans it.
InitFor(sds, ws, dds) ==
    /\ deck = <<>>
    /\ startdate \in sds
    /\ welspecs \in ws
    /\ dictdate \in dds
    /\ date = None
    /\ gruptreerecords = <<>>
    /\ grupnetrecords = <<>>
    /\ currentedges = <<>>
    /\ grupnet_df = EmptyDf
    /\ found_gruptree = FALSE
    /\ found_welspecs = FALSE
    /\ found_grupnet = FALSE
    /\ pc = "idle"
    /\ pos = 0
    /\ ret = NoRet
    /\ calls = 0
    /\ prev = <<>>
    /\ emissions = <<>>
    /\ treerows = <<>>
    /\ trees = NoTrees
    /\ dictret = NoDict

InitWith(ws) == InitFor(StartDates, ws, {<<"END">>})

Init == InitWith({TRUE})

\* The locals as a function that keeps its edges in a module-level dict
\* would find them.
Entry_KeepsEdges ==
    /\ date' = (IF startdate # None THEN startdate ELSE None)
    /\ gruptreerecords' = <<>>
    /\ grupnetrecords' = <<>>
    /\ grupnet_df' = EmptyDf
    /\ found_gruptree' = FALSE
    /\ found_welspecs' = FALSE
    /\ found_grupnet' = FALSE
    /\ emissions' = <<>>
    /\ UNCHANGED currentedges

\* The locals as deck2df sets them before its loop, called with the
\* startdate sd.
EntryWith(sd) ==
    /\ date' = (IF sd # None THEN sd ELSE None)
    /\ gruptreerecords' = <<>>
    /\ grupnetrecords' = <<>>
    /\ currentedges' = <<>>
    /\ grupnet_df' = EmptyDf
    /\ found_gruptree' = FALSE
    /\ found_welspecs' = FALSE
    /\ found_grupnet' = FALSE
    /\ emissions' = <<>>

Entry == EntryWith(startdate)

\* deck2df(deck, startdate, welspecs) is called.
Call ==
    /\ pc = "idle"
    /\ Entry
    /\ pc' = "scan"
    /\ pos' = 0
    /\ calls' = calls + 1
    /\ UNCHANGED <<args, ret, prev, uses>>

\* deck2df is called once more with the same arguments.
CallAgain ==
    /\ pc = "done"
    /\ calls < MaxCalls
    /\ Entry
    /\ pc' = "scan"
    /\ pos' = 0
    /\ calls' = calls + 1
    /\ prev' = Append(prev, ret)
    /\ ret' = NoRet
    /\ UNCHANGED <<args, uses>>

\* deck2df is called once more on the deck, with another startdate.
CallOther ==
    /\ pc = "done"
    /\ calls < MaxCalls
    /\ startdate' \in StartDates \ {startdate}
    /\ EntryWith(startdate')
    /\ pc' = "scan"
    /\ pos' = 0
    /\ calls' = calls + 1
    /\ prev' = Append(prev, ret)
    /\ ret' = NoRet
    /\ UNCHANGED <<deck, welspecs, uses>>

\* Equality of keywords; records are compared for keywords of one name only.
SameKw(a, b) == a.name = b.name /\ a.recs = b.recs

SameDeck(a, b) ==
    Len(a) = Len(b) /\ \A i \in DOMAIN a : SameKw(a[i], b[i])

\* The loop takes kw as the next keyword of the deck.
Feed(kw) ==
    /\ pc = "scan"
    /\ IF pos < Len(deck)
       THEN SameKw(deck[pos + 1], kw) /\ UNCHANGED deck
       ELSE calls = 1 /\ Len(deck) < MaxDeck /\ deck' = Append(deck, kw)
    /\ pos' = pos + 1
    /\ UNCHANGED <<startdate, welspecs, calls, prev, uses>>

\* The record of one dump: the keyword it was made at (the length of the
\* deck plus one for the dump after the last keyword) and the rows it added.
Emission(at, before, after) ==
    [at |-> at, first |-> Len(before) + 1, last |-> Len(after)]

\* A dump that leaves the flags as they are.
Dump_KeepsFlags ==
    LET dumping == Dumping(currentedges, found_gruptree, found_welspecs,
                           found_grupnet) IN
    /\ gruptreerecords' =
          (IF dumping
           THEN gruptreerecords \o DumpRows(DumpDate(date), currentedges, grupnet_df)
           ELSE gruptreerecords)
    /\ UNCHANGED <<found_gruptree, found_welspecs, found_grupnet>>
    /\ emissions' = (IF dumping THEN Append(emissions, Emission(pos + 1, gruptreerecords, gruptreerecords'))
                     ELSE emissions)

\* The dump at a date keyword: the rows are appended and the flags cleared.
Dump ==
    LET dumping == Dumping(currentedges, found_gruptree, found_welspecs,
                           found_grupnet) IN
    /\ gruptreerecords' =
          (IF dumping
           THEN gruptreerecords \o DumpRows(DumpDate(date), currentedges, grupnet_df)
           ELSE gruptreerecords)
    /\ found_gruptree' = (IF dumping THEN FALSE ELSE found_gruptree)
    /\ found_welspecs' = (IF dumping THEN FALSE ELSE found_welspecs)
    /\ found_grupnet' = (IF dumping THEN FALSE ELSE found_grupnet)
    /\ emissions' = (IF dumping THEN Append(emissions, Emission(pos + 1, gruptreerecords, gruptreerecords'))
                     ELSE emissions)

\* The date after the dump, before the keyword itself is parsed.
DateAfterDump ==
    IF Dumping(currentedges, found_gruptree, found_welspecs, found_grupnet)
    THEN DumpDate(date) ELSE date

\* kw.name == "DATES" or kw.name == "START"
SetDate(kw) ==
    /\ Feed(kw)
    /\ Dump
    /\ date' = ParseDates(DateAfterDump, kw.recs)
    /\ UNCHANGED <<grupnetrecords, currentedges, grupnet_df, pc, ret>>

Start(kw) == kw.name = "START" /\ SetDate(kw)

Dates(kw) == kw.name = "DATES" /\ SetDate(kw)

\* kw.name == "TSTEP"
Tstep(kw) ==
    /\ Feed(kw)
    /\ Dump
    /\ LET r == Advance(DateAfterDump, kw.recs) IN
       /\ date' = r.date
       /\ IF r.outcome = "ok" THEN UNCHANGED <<pc, ret>>
          ELSE /\ pc' = "done"
               /\ ret' = [kind |-> IF r.outcome = "return" THEN "None" ELSE "TypeError",
                          rows |-> <<>>]
    /\ UNCHANGED <<grupnetrecords, currentedges, grupnet_df>>

\* kw.name == "GRUPTREE"
Gruptree(kw) ==
    /\ Feed(kw)
    /\ found_gruptree' = TRUE
    /\ currentedges' = RecordEdges(currentedges, kw.recs, "GRUPTREE")
    /\ UNCHANGED <<date, gruptreerecords, grupnetrecords, grupnet_df,
                   found_welspecs, found_grupnet, pc, ret, emissions>>

\* kw.name == "WELSPECS"
Welspecs(kw) ==
    /\ Feed(kw)
    /\ IF welspecs
       THEN /\ found_welspecs' = TRUE
            /\ currentedges' = RecordEdges(currentedges, kw.recs, "WELSPECS")
       ELSE UNCHANGED <<found_welspecs, currentedges>>
    /\ UNCHANGED <<date, gruptreerecords, grupnetrecords, grupnet_df,
                   found_gruptree, found_grupnet, pc, ret, emissions>>

\* kw.name == "GRUPNET"
Grupnet(kw) ==
    /\ Feed(kw)
    /\ found_grupnet' = TRUE
    /\ grupnetrecords' = grupnetrecords \o GrupnetDataOf(kw.recs)
    /\ grupnet_df' = GrupnetDf(grupnetrecords')
    /\ UNCHANGED <<date, gruptreerecords, currentedges, found_gruptree,
                   found_welspecs, pc, ret, emissions>>

\* Any other keyword.
Other(kw) ==
    /\ Feed(kw)
    /\ UNCHANGED <<locals, pc, ret, emissions>>

\* df = pd.DataFrame(gruptreerecords) with its DATE column converted.
DataFrame(records) ==
    [i \in DOMAIN records |-> [records[i] EXCEPT !.DATE = ToDatetime(@)]]

\* pd.to_datetime raises TypeError on a DATE that is a bool.
Convertible(records) ==
    \A i \in DOMAIN records : records[i].DATE = None \/ IsDate(records[i].DATE)

\* The deck has no more keywords: the last dump, and the return of the table.
EndOfInput ==
    /\ pc = "scan"
    /\ pos = Len(deck)
    /\ gruptreerecords' =
          (IF FinalDumping(found_gruptree, found_welspecs, found_grupnet)
           THEN gruptreerecords \o DumpRows(date, currentedges, grupnet_df)
           ELSE gruptreerecords)
    /\ emissions' =
          (IF FinalDumping(found_gruptree, found_welspecs, found_grupnet)
           THEN Append(emissions, Emission(pos + 1, gruptreerecords, gruptreerecords'))
           ELSE emissions)
    /\ ret' = (IF Convertible(gruptreerecords')
               THEN [kind |-> "DataFrame", rows |-> DataFrame(gruptreerecords')]
               ELSE [kind |-> "TypeError", rows |-> <<>>])
    /\ pc' = "done"
    /\ UNCHANGED <<args, date, grupnetrecords, currentedges, grupnet_df,
                   found_gruptree, found_welspecs, found_grupnet, pos, calls, prev,
                   uses>>

(***************************************************************************)
(* gruptreedf2dict.  A dict of names is the sequence of its keys in        *)
(* insertion order.  subtrees maps a name to the one dict object of that   *)
(* name: the value stored under the key k of any dict is the object        *)
(* subtrees[k] itself, not a copy, so the nesting is read through          *)
(* subtrees.                                                               *)
(***************************************************************************)
\* for _, row in df.iterrows(): edges.append((row["CHILD"], row["PARENT"]))
EdgesOf(rows) == [i \in DOMAIN rows |-> <<rows[i].CHILD, rows[i].PARENT>>]

\* subtrees[name] of a defaultdict(dict): a missing name gets an empty dict.
Touch(st, name) ==
    IF name \in DOMAIN st THEN st
    ELSE [n \in (DOMAIN st) \cup {name} |-> IF n = name THEN <<>> ELSE st[n]]

\* The dict of the parent replaced by one that holds the child alone.
SetChild_Alone(st, child, parent) ==
    LET s == Touch(Touch(st, child), parent)
    IN [s EXCEPT ![parent] = <<child>>]

\* subtrees[parent][child] = subtrees[child]
SetChild(st, child, parent) ==
    LET s == Touch(Touch(st, child), parent)
        keys == s[parent]
    IN [s EXCEPT ![parent] =
            IF \E i \in DOMAIN keys : keys[i] = child THEN keys
            ELSE Append(keys, child)]

RECURSIVE Subtrees(_, _)
\* for child, parent in edges: subtrees[parent][child] = subtrees[child]
Subtrees(st, edges) ==
    IF edges = <<>> THEN st
    ELSE Subtrees(SetChild(st, edges[1][1], edges[1][2]), Tail(edges))

\* Every parent taken as a root.
Roots_Parents(edges) == {edges[i][2] : i \in DOMAIN edges}

\* roots = set(parents).difference(children)
Roots(edges) ==
    {edges[i][2] : i \in DOMAIN edges} \ {edges[i][1] : i \in DOMAIN edges}

\* The orders in which the iteration of a set can give its elements.
Orders(S) ==
    {o \in [1..Cardinality(S) -> S] : \A i, j \in DOMAIN o : o[i] = o[j] => i = j}

\* gruptreedf2dict(df), where order is the order in which the set roots is
\* iterated: for every root one dict is appended, and the dict
\* comprehension in it runs over all roots.
Gruptreedf2dict(rows, order) ==
    IF rows = <<>> THEN NoTrees
    ELSE [maps |-> [i \in DOMAIN order |-> order],
          subtrees |-> Subtrees(<<>>, EdgesOf(rows))]

\* df[df["DATE"] == date]
RowsOfDate(rows, d) == SelectSeq(rows, LAMBDA r : r.DATE = d)

\* df["DATE"].dropna().unique()
DatesOf(rows) == {rows[i].DATE : i \in DOMAIN rows} \ {NaT}

\* main, pretty-printing: gruptreedf2dict on the rows of one date of the
\* table deck2df returned.
Materialize ==
    /\ pc = "done"
    /\ ret.kind = "DataFrame"
    /\ \E d \in DatesOf(ret.rows) :
          LET rows == RowsOfDate(ret.rows, d) IN
          /\ treerows' = rows
          /\ \E order \in Orders(Roots(EdgesOf(rows))) :
                trees' = Gruptreedf2dict(rows, order)
    /\ UNCHANGED <<args, locals, pc, pos, ret, calls, prev, emissions,
                   dictdate, dictret>>

(***************************************************************************)
(* gruptree2dict(deck, date, welspecs).  It calls gruptree2df(deck,        *)
(* welspecs), so its welspecs is the startdate of the call of deck2df, a   *)
(* bool, and the welspecs of deck2df is the default True.  Its result is   *)
(* what it returns or the exception it ends in.                            *)
(***************************************************************************)
\* A string argument.
Str(s) == <<s>>

IsStr(v) == Len(v) = 1

\* The values of the date argument: the default "END", "START" and a
\* pandas Timestamp.
DictDates == {Str("END"), Str("START"), <<2020, 1, 1, 0, 0, 0>>}

\* The result for a table with rows, whose index is the DATE of the rows:
\* lines 196-210.
DictOfTable(rows, d, order) ==
    LET atdate == IF d = Str("END") THEN rows[Len(rows)].DATE ELSE d
        found == RowsOfDate(rows, atdate)
    IN IF IsStr(d) /\ d # Str("END") THEN [kind |-> "NameError", trees |-> NoTrees]
       ELSE IF found = <<>> THEN [kind |-> "dict", trees |-> NoTrees]
       ELSE IF Len(found) = 1 THEN [kind |-> "AttributeError", trees |-> NoTrees]
       ELSE [kind |-> "list", trees |-> Gruptreedf2dict(found, order)]

\* The result of gruptree2dict after its call of deck2df ended with r: an
\* exception of deck2df goes on, None has no set_index, and a table
\* without rows has no column DATE to make the index of.
DictOf(r, d, order) ==
    IF r.kind = "TypeError" THEN [kind |-> "TypeError", trees |-> NoTrees]
    ELSE IF r.kind = "None" THEN [kind |-> "AttributeError", trees |-> NoTrees]
    ELSE IF r.rows = <<>> THEN [kind |-> "KeyError", trees |-> NoTrees]
    ELSE DictOfTable(r.rows, d, order)

\* The rows gruptreedf2dict gets from gruptree2dict, if it gets any.
DictRows(r, d) ==
    IF r.kind # "DataFrame" \/ r.rows = <<>> \/ (IsStr(d) /\ d # Str("END")) THEN <<>>
    ELSE RowsOfDate(r.rows, IF d = Str("END") THEN r.rows[Len(r.rows)].DATE ELSE d)

\* gruptree2dict after its call of deck2df.
Gruptree2dict ==
    /\ pc = "done"
    /\ dictret = NoDict
    /\ \E order \in Orders(Roots(EdgesOf(DictRows(ret, dictdate)))) :
          dictret' = DictOf(ret, dictdate, order)
    /\ UNCHANGED <<args, locals, pc, pos, ret, calls, prev, emissions,
                   treerows, trees, dictdate>>

\* A deck has one START at most.
NoStartYet == \A i \in 1..pos : deck[i].name # "START"

Next ==
    \/ Call
    \/ \E kw \in StartKws : NoStartYet /\ Start(kw)
    \/ \E kw \in DatesKws : Dates(kw)
    \/ \E kw \in TstepKws : Tstep(kw)
    \/ \E kw \in GruptreeKws : Gruptree(kw)
    \/ \E kw \in WelspecsKws : Welspecs(kw)
    \/ \E kw \in OtherKws : Other(kw)
    \/ EndOfInput

Spec == Init /\ [][Next]_vars

\* The decks of a group tree with network attributes.
NextNet ==
    \/ Call
    \/ \E kw \in OneDateKws : Dates(kw)
    \/ \E kw \in GroupKws : Gruptree(kw)
    \/ \E kw \in GrupnetKws : Grupnet(kw)
    \/ EndOfInput

SpecNet == Init /\ [][NextNet]_vars

\* Group trees with a child of two parents, two roots and a cycle.
TreeList ==
    <<EdgeRec("GRP1", "FIELD"), EdgeRec("W1", "GRP1"), EdgeRec("W1", "GRP2"),
      EdgeRec("GRP2", "GRP1"), EdgeRec("GRP1", "GRP2")>>

TreeKws == Kws("GRUPTREE", TreeList, MaxRecs)

TreeDateKws == {Kw("DATES", <<DateRec(1, "FEB", 2020)>>)}

\* The decks of group trees, and the trees made of the rows of one date.
NextTree ==
    \/ Call
    \/ \E kw \in TreeDateKws : Dates(kw)
    \/ \E kw \in TreeKws : Gruptree(kw)
    \/ EndOfInput
    \/ Materialize

SpecTree == Init /\ [][NextTree]_vars

OneStepKws == Kws("TSTEP", StepList, 1)
OneEdgeKws == Kws("GRUPTREE", GroupList, 1)
OneWellKws == Kws("WELSPECS", WelspecsList, 1)
OneNetKws == Kws("GRUPNET", GrupnetList, 1)

\* Calls on one deck that differ in the startdate alone.
NextStart ==
    \/ Call
    \/ CallOther
    \/ \E kw \in StartKws : NoStartYet /\ Start(kw)
    \/ \E kw \in OneDateKws : Dates(kw)
    \/ \E kw \in OneStepKws : Tstep(kw)
    \/ \E kw \in OneEdgeKws : Gruptree(kw)
    \/ \E kw \in OneWellKws : Welspecs(kw)
    \/ EndOfInput

SpecStart == Init /\ [][NextStart]_vars

\* gruptree2dict: the startdate of its call of deck2df is its welspecs.
InitDict == InitFor({Bool(TRUE), Bool(FALSE)}, {TRUE}, DictDates)

NextDict ==
    \/ Call
    \/ \E kw \in StartKws : NoStartYet /\ Start(kw)
    \/ \E kw \in OneDateKws : Dates(kw)
    \/ \E kw \in OneStepKws : Tstep(kw)
    \/ \E kw \in OneEdgeKws : Gruptree(kw)
    \/ \E kw \in OneWellKws : Welspecs(kw)
    \/ \E kw \in OtherKws : Other(kw)
    \/ EndOfInput
    \/ Gruptree2dict

SpecDict == InitDict /\ [][NextDict]_vars

\* The call of deck2df is the one gruptree2dict makes: its startdate is a
\* bool, the welspecs that gruptree2dict was given.
ViaDict == Len(startdate) = 1

\* welspecs=False, given to deck2df itself or to gruptree2dict.
InitWells ==
    \/ InitFor(StartDates, {FALSE}, {Str("END")})
    \/ InitFor({Bool(FALSE)}, {TRUE}, {Str("END")})

NextWells ==
    \/ Call
    \/ \E kw \in StartKws : NoStartYet /\ Start(kw)
    \/ \E kw \in OneDateKws : Dates(kw)
    \/ \E kw \in OneStepKws : Tstep(kw)
    \/ \E kw \in OneEdgeKws : Gruptree(kw)
    \/ \E kw \in WelspecsKws : Welspecs(kw)
    \/ EndOfInput
    \/ ViaDict /\ Gruptree2dict

SpecWells == InitWells /\ [][NextWells]_vars

\* Two calls in a row on one deck, of keywords of one record.
NextRerun ==
    \/ Call
    \/ CallAgain
    \/ \E kw \in StartKws : NoStartYet /\ Start(kw)
    \/ \E kw \in OneDateKws : Dates(kw)
    \/ \E kw \in OneStepKws : Tstep(kw)
    \/ \E kw \in OneEdgeKws : Gruptree(kw)
    \/ \E kw \in OneWellKws : Welspecs(kw)
    \/ \E kw \in OneNetKws : Grupnet(kw)
    \/ EndOfInput

SpecRerun == Init /\ [][NextRerun]_vars

(***************************************************************************)
(* Properties.  They speak of the deck scanned so far, deck[1..pos], of    *)
(* the rows dumped so far and of the table returned.                       *)
(***************************************************************************)
DateNames == {"START", "DATES", "TSTEP"}
ChangeNames == {"GRUPTREE", "WELSPECS", "GRUPNET"}

Scanned == 1..pos

\* The step takes a keyword with one of the names.
Takes(names) == pc = "scan" /\ pos' = pos + 1 /\ deck'[pos'].name \in names

\* The rows appended by the step.
NewRows == SubSeq(gruptreerecords', Len(gruptreerecords) + 1, Len(gruptreerecords'))

Triple(r) == <<r.CHILD, r.PARENT, r.TYPE>>

EdgeTriples(edges) == [i \in DOMAIN edges |-> <<edges[i].edge[1], edges[i].edge[2], edges[i].value>>]

RECURSIVE TotalDays(_)
\* The sum of all step lengths of a TSTEP keyword.
TotalDays(recs) ==
    IF recs = <<>> THEN 0 ELSE Sum(recs[1][1]) + TotalDays(Tail(recs))

Returned == pc = "done" /\ ret.kind = "DataFrame"

\* ---- C1 ----------------------------------------------------------------
ScenarioA ==
    << Kw("START", <<DateRec(1, "JAN", 2020)>>),
       Kw("GRUPTREE", <<EdgeRec("W1", "GRP1")>>),
       Kw("DATES", <<DateRec(1, "FEB", 2020)>>),
       Kw("WELSPECS", <<EdgeRec("W2", "GRP1")>>) >>

ScenarioARows ==
    << [DATE |-> <<2020, 1, 1, 0, 0, 0>>, CHILD |-> "W1", PARENT |-> "GRP1",
        TYPE |-> "GRUPTREE", ATTRS |-> NoAttrs],
       [DATE |-> <<2020, 2, 1, 0, 0, 0>>, CHILD |-> "W1", PARENT |-> "GRP1",
        TYPE |-> "GRUPTREE", ATTRS |-> NoAttrs],
       [DATE |-> <<2020, 2, 1, 0, 0, 0>>, CHILD |-> "W2", PARENT |-> "GRP1",
        TYPE |-> "WELSPECS", ATTRS |-> NoAttrs] >>

\* A date keyword taken after a change keyword dumps one row per edge, each
\* with the date of before the keyword (1900-01-01 if there was none), and
\* START and DATES then set the date of their last record.
C1_StampStep ==
    (Takes(DateNames) /\ (found_gruptree \/ found_welspecs \/ found_grupnet)) =>
        /\ Len(NewRows) = Len(currentedges)
        /\ \A i \in DOMAIN NewRows :
              /\ NewRows[i].DATE = (IF date = None THEN Epoch ELSE date)
              /\ Triple(NewRows[i]) = EdgeTriples(currentedges)[i]
        /\ (deck'[pos'].name \in {"START", "DATES"} /\ deck'[pos'].recs # <<>>) =>
              date' = DateOfRec(deck'[pos'].recs[Len(deck'[pos'].recs)])

\* The edge keywords after the last date keyword of the deck.
LastDateKw == CHOOSE i \in Scanned :
    /\ deck[i].name \in DateNames
    /\ \A j \in Scanned : deck[j].name \in DateNames => j <= i

C1_Final ==
    (Returned /\ calls = 1 /\ \E i \in Scanned : deck[i].name \in DateNames) =>
        \A j \in Scanned :
            (j > LastDateKw /\ deck[j].name \in {"GRUPTREE", "WELSPECS"}) =>
                \A k \in DOMAIN deck[j].recs :
                    \E n \in DOMAIN ret.rows :
                        /\ n > Len(ret.rows) - Len(currentedges)
                        /\ ret.rows[n].CHILD = deck[j].recs[k][1][1]
                        /\ ret.rows[n].PARENT = deck[j].recs[k][2][1]
                        /\ ret.rows[n].DATE = ToDatetime(date)
                        /\ date # None

C1_ScenarioA ==
    (pc = "done" /\ calls = 1 /\ pos = 4 /\ SameDeck(deck, ScenarioA)) =>
        ret = [kind |-> "DataFrame", rows |-> ScenarioARows]

\* C1: at a date keyword after a change the rows are dumped with the date
\* current before the keyword and only then the date changes; the edges
\* declared after the last date keyword are in a final dump with that last
\* date; the deck START 2020-01-01, GRUPTREE (W1,GRP1), DATES 2020-02-01,
\* WELSPECS (W2,GRP1) returns exactly the three rows of ScenarioARows.
C1_SnapshotStamping ==
    [][C1_StampStep]_vars /\ [](C1_Final /\ C1_ScenarioA)

C1_Witness ==
    /\ pc = "done" /\ pos = 4 /\ SameDeck(deck, ScenarioA)
    /\ Len(ret.rows) = 3

\* ---- C2 ----------------------------------------------------------------
\* a <= b on the DATE of two rows; a row without date only equals another
\* row without date.
RowDateLeq(a, b) == a = b \/ (a # None /\ b # None /\ DateLess(a, b))

NonDecreasing(rows) ==
    \A i, j \in DOMAIN rows : i < j => RowDateLeq(rows[i].DATE, rows[j].DATE)

\* C2 as stated: the dates of the returned rows never decrease.
C2_DatesNonDecreasing == Returned => NonDecreasing(ret.rows)

\* The rows dumped so far are in date order and none is later than the
\* current date.
C2_Ordered ==
    /\ NonDecreasing(gruptreerecords)
    /\ (gruptreerecords # <<>> /\ pc = "scan") =>
          (date # None /\ DateLeq(gruptreerecords[Len(gruptreerecords)].DATE, date))
    /\ Returned => NonDecreasing(ret.rows)

\* The step takes a START or DATES that sets a date earlier than the date
\* current before it, where 1900-01-01 counts as current if there is none.
C2_SetsBack ==
    /\ Takes({"START", "DATES"})
    /\ date' # None
    /\ DateLess(date', IF date = None THEN Epoch ELSE date)

\* C2, amended: the dates of the rows can only decrease at a START or DATES
\* keyword that sets the date back; no other step, TSTEP included, breaks
\* the order of the rows or puts the current date before the last row.
C2_NonDecreasingUnlessSetBack ==
    [][(C2_Ordered /\ ~C2_SetsBack) => C2_Ordered']_vars

C2_Witness ==
    /\ Returned
    /\ Len(ret.rows) >= 2
    /\ ret.rows[1].DATE # NaT
    /\ DateLess(ret.rows[1].DATE, ret.rows[Len(ret.rows)].DATE)
    /\ \E i \in Scanned : deck[i].name = "TSTEP"

\* ---- C3 ----------------------------------------------------------------
\* C3: a TSTEP whose step lengths sum to zero or less is the last keyword
\* scanned, and the call ends without a table and without rows.
C3_InvalidTstepFatal ==
    \A i \in Scanned :
        (deck[i].name = "TSTEP" /\ TotalDays(deck[i].recs) <= 0) =>
            /\ pos = i
            /\ pc = "done"
            /\ ret.kind # "DataFrame"
            /\ ret.rows = <<>>

C3_Witness ==
    /\ pc = "done" /\ ret.kind = "None"
    /\ deck[pos].name = "TSTEP" /\ TotalDays(deck[pos].recs) <= 0
    /\ Len(gruptreerecords) > Len(currentedges)

\* ---- C4 ----------------------------------------------------------------
\* No date is established before keyword i of the deck.
NoDateBefore(i) ==
    /\ startdate = None
    /\ \A j \in 1..(i - 1) : deck[j].name \notin DateNames

PositiveSteps(recs) == \A k \in DOMAIN recs : Sum(recs[k][1]) > 0

\* C4: a TSTEP taken before any date is established does not fail; the
\* date after it is 1900-01-01 plus its days, with or without edges before.
C4_TstepFallback ==
    (pos >= 1 /\ deck[pos].name = "TSTEP" /\ PositiveSteps(deck[pos].recs)
        /\ NoDateBefore(pos)) =>
            /\ pc = "scan"
            /\ date = AddDays(Epoch, TotalDays(deck[pos].recs))

\* ---- C5 ----------------------------------------------------------------
NoChangeKeyword == \A i \in DOMAIN deck : deck[i].name \notin ChangeNames

\* C5 as stated: a deck without GRUPTREE, WELSPECS and GRUPNET completes
\* and returns a table with zero rows.
C5_EmptyTable ==
    (pc = "done" /\ NoChangeKeyword) => (ret.kind = "DataFrame" /\ ret.rows = <<>>)

\* C5, amended: for such a deck no row is ever dumped or returned; a table
\* is returned only if every TSTEP record sums to more than zero and has a
\* date to advance, and otherwise the call ends at the TSTEP without a table.
C5_NoRows ==
    NoChangeKeyword =>
        /\ gruptreerecords = <<>>
        /\ ret.rows = <<>>
        /\ Returned =>
              \A i \in DOMAIN deck : deck[i].name = "TSTEP" =>
                  (PositiveSteps(deck[i].recs) /\ ~NoDateBefore(i))
        /\ (pc = "done" /\ ~Returned) => deck[pos].name = "TSTEP"

C5_Witness ==
    /\ Returned /\ NoChangeKeyword /\ ret.rows = <<>>
    /\ \E i \in Scanned : deck[i].name = "TSTEP"
    /\ \E i \in Scanned : deck[i].name = "DATES"
    /\ \E i \in Scanned : deck[i].name = "WCONPROD"

\* ---- C6 ----------------------------------------------------------------
\* C6: at the end of the deck, if any of the three flags is set and there
\* is an edge, one more dump of all edges with the current date is made.
C6_FinalSnapshotOnAnyFlag ==
    [][(pc = "scan" /\ pc' = "done" /\ ret'.kind = "DataFrame"
          /\ (found_gruptree \/ found_welspecs \/ found_grupnet)
          /\ Len(currentedges) > 0) =>
              /\ Len(NewRows) = Len(currentedges)
              /\ \A i \in DOMAIN NewRows :
                    /\ NewRows[i].DATE = date
                    /\ Triple(NewRows[i]) = EdgeTriples(currentedges)[i]]_vars

\* ---- C7 ----------------------------------------------------------------
RECURSIVE Flatten(_)
Flatten(ss) == IF ss = <<>> THEN <<>> ELSE ss[1] \o Flatten(Tail(ss))

\* The GRUPNET records of the keywords scanned, in deck order.
ScannedNetRecs ==
    Flatten([i \in Scanned |-> IF deck[i].name = "GRUPNET" THEN deck[i].recs ELSE <<>>])

\* The records of the last GRUPNET keyword scanned.
LastNetKw == CHOOSE i \in Scanned :
    /\ deck[i].name = "GRUPNET"
    /\ \A j \in Scanned : deck[j].name = "GRUPNET" => j <= i

\* The fields that hold a value in the last record of recs with the name.
LastFields(recs, name) ==
    LET n == CHOOSE i \in DOMAIN recs :
                /\ recs[i].NAME = <<name>>
                /\ \A j \in DOMAIN recs : recs[j].NAME = <<name>> => j <= i
    IN {k \in KeySet \ {"NAME"} : recs[n][k] # <<>>}

\* The table holds the names of recs, each with the fields and values of
\* its last record in recs.
TableOf(recs) ==
    /\ DOMAIN grupnet_df = {recs[i].NAME[1] : i \in DOMAIN recs}
    /\ \A name \in DOMAIN grupnet_df :
          /\ DOMAIN grupnet_df[name] = LastFields(recs, name)
          /\ \A i \in DOMAIN recs : \A k \in DOMAIN grupnet_df[name] :
                (recs[i].NAME = <<name>>
                   /\ \A j \in DOMAIN recs : recs[j].NAME = <<name>> => j <= i) =>
                      grupnet_df[name][k] = recs[i][k][1]

SomeGrupnet == \E i \in Scanned : deck[i].name = "GRUPNET"

\* C7 as stated: after a GRUPNET the table holds exactly the names of that
\* block, each with its last record in the block.
C7_TableOfLastBlock ==
    (pc = "scan" /\ SomeGrupnet) => TableOf(deck[LastNetKw].recs)

\* C7, amended: after a GRUPNET the table holds the names of all GRUPNET
\* records scanned so far, each with the last of all records of its name; a
\* group of an earlier block that is absent from the latest block keeps its
\* row.
C7_TableOfAllBlocks ==
    (pc = "scan" /\ SomeGrupnet) => TableOf(ScannedNetRecs)

C7_Witness ==
    /\ Returned
    /\ DOMAIN grupnet_df = {"GRP1", "GRP2"}
    /\ \A k \in DOMAIN deck[LastNetKw].recs : deck[LastNetKw].recs[k].NAME = <<"GRP1">>
    /\ \E n \in DOMAIN ret.rows :
          ret.rows[n].CHILD = "GRP2" /\ ret.rows[n].ATTRS = [ALQ |-> 7]
    /\ \E n \in DOMAIN ret.rows :
          ret.rows[n].CHILD = "GRP1" /\ ret.rows[n].ATTRS = [VFP_TABLE |-> 9]
    /\ \E i \in Scanned :
          /\ deck[i].name = "GRUPNET" /\ Len(deck[i].recs) = 2
          /\ deck[i].recs[1].NAME = deck[i].recs[2].NAME
          /\ deck[i].recs[1] # deck[i].recs[2]

\* ---- C8 ----------------------------------------------------------------
\* The rows a step dumps for a child with GRUPNET records have the fields
\* of the last record of that name scanned before the dump.
C8_RowStep ==
    \A i \in DOMAIN NewRows :
        LET name == NewRows[i].CHILD IN
        (\E n \in DOMAIN ScannedNetRecs : ScannedNetRecs[n].NAME = <<name>>) =>
            DOMAIN NewRows[i].ATTRS = LastFields(ScannedNetRecs, name)

\* C8: a row dumped for a child with GRUPNET records carries the fields of
\* the last record of that name and no others: a value of an earlier
\* record never shows in a field the last record leaves out.
C8_RowsOfLatestRecord == [][C8_RowStep]_vars

C8_Witness ==
    /\ Returned
    /\ \E i, j \in Scanned :
          /\ i < j
          /\ deck[i].name = "GRUPNET" /\ deck[j].name = "GRUPNET"
          /\ deck[i].recs[Len(deck[i].recs)] = NetRec("GRP1", <<>>, <<5>>)
          /\ deck[j].recs[Len(deck[j].recs)] = NetRec("GRP1", <<9>>, <<>>)
          /\ \A k \in Scanned : k > j => deck[k].name # "GRUPNET"
    /\ \E n \in DOMAIN ret.rows :
          /\ ret.rows[n].CHILD = "GRP1"
          /\ ret.rows[n].ATTRS = [VFP_TABLE |-> 9]

\* ---- C9 ----------------------------------------------------------------
\* C9 as stated: a name is the child of at most one edge.
C9_OneParent ==
    \A i, j \in DOMAIN currentedges :
        currentedges[i].edge[1] = currentedges[j].edge[1] => i = j

\* The pairs (child, parent) of the GRUPTREE and WELSPECS records scanned.
ScannedPairs ==
    {<<deck[i].recs[k][1][1], deck[i].recs[k][2][1]>> :
        <<i, k>> \in {<<i, k>> \in Scanned \X (1..MaxRecs) :
            /\ deck[i].name \in {"GRUPTREE", "WELSPECS"}
            /\ k \in DOMAIN deck[i].recs}}

\* C9, amended: a pair (child, parent) is the key of at most one edge, and
\* the edges are exactly the pairs recorded so far: an edge to a new parent
\* is added next to the edge to the old parent of the child.
C9_OneEntryPerPair ==
    welspecs =>
        /\ \A i, j \in DOMAIN currentedges :
              currentedges[i].edge = currentedges[j].edge => i = j
        /\ {currentedges[i].edge : i \in DOMAIN currentedges} = ScannedPairs

C9_Witness ==
    /\ pc = "scan"
    /\ \E i, j \in DOMAIN currentedges :
          /\ i < j
          /\ currentedges[i].edge = <<"W1", "GRP1">>
          /\ currentedges[j].edge = <<"W1", "GRP2">>
    /\ \E i, j \in Scanned :
          /\ i < j
          /\ deck[i].name = "GRUPTREE" /\ deck[j].name = "WELSPECS"
          /\ deck[i].recs[1] = EdgeRec("W1", "GRP1")
          /\ deck[j].recs[1] = EdgeRec("W1", "GRP1")

\* ---- C10 ---------------------------------------------------------------
\* C10: a call that follows other calls on the same deck with the same
\* arguments ends as they did: the same table, row by row, or the same
\* failure.
C10_SameResultAgain ==
    pc = "done" => \A n \in DOMAIN prev : ret = prev[n]

C10_Witness ==
    /\ pc = "done" /\ calls = 2 /\ Returned
    /\ Len(ret.rows) > Len(currentedges)
    /\ \E n \in DOMAIN ret.rows : ret.rows[n].ATTRS # NoAttrs
    /\ ret = prev[1]

\* ---- C11 ---------------------------------------------------------------
\* The names found in the nested dicts under the names of S.
RECURSIVE Reach(_, _)
Reach(st, S) ==
    LET T == S \cup UNION {{st[n][i] : i \in DOMAIN st[n]} : n \in S \cap DOMAIN st}
    IN IF T = S THEN S ELSE Reach(st, T)

\* The keys of the dicts of the list returned.
TopKeys(t) == UNION {{t.maps[i][j] : j \in DOMAIN t.maps[i]} : i \in DOMAIN t.maps}

\* Every (child, parent) nesting found by walking the trees returned.
Nestings(t) ==
    UNION {{<<t.subtrees[p][i], p>> : i \in DOMAIN t.subtrees[p]} :
            p \in Reach(t.subtrees, TopKeys(t)) \cap DOMAIN t.subtrees}

PairsOf(rows) == {<<rows[i].CHILD, rows[i].PARENT>> : i \in DOMAIN rows}

NamesOf(rows) ==
    {rows[i].CHILD : i \in DOMAIN rows} \cup {rows[i].PARENT : i \in DOMAIN rows}

\* The names that are a parent and never a child in the rows.
RootNames(rows) ==
    {rows[i].PARENT : i \in DOMAIN rows} \ {rows[i].CHILD : i \in DOMAIN rows}

RECURSIVE Below(_, _)
\* The names of S and the names that descend from them by the pairs P.
Below(P, S) ==
    LET T == S \cup {pr[1] : pr \in {q \in P : q[2] \in S}}
    IN IF T = S THEN S ELSE Below(P, T)

\* The names of the rows that are a root or descend from one.
Rooted(rows) == Below(PairsOf(rows), RootNames(rows))

\* C11 as stated: the nestings of the trees are the pairs of the rows.
C11_RoundTrip ==
    treerows # <<>> => Nestings(trees) = PairsOf(treerows)

\* C11, amended: the nestings of the trees are the pairs of the rows whose
\* parent is a root or descends from one; they are all pairs of the rows
\* when every name descends from a root, a child with two parents and a
\* cycle below a root included, and the pairs of a cycle that no root
\* reaches are lost.
C11_RoundTripOfRooted ==
    treerows # <<>> =>
        /\ Nestings(trees) = {pr \in PairsOf(treerows) : pr[2] \in Rooted(treerows)}
        /\ Rooted(treerows) = NamesOf(treerows) =>
              Nestings(trees) = PairsOf(treerows)

C11_Witness ==
    /\ {<<"GRP1", "FIELD">>, <<"GRP2", "GRP1">>, <<"GRP1", "GRP2">>}
          \subseteq PairsOf(treerows)
    /\ Rooted(treerows) = NamesOf(treerows)
    /\ Nestings(trees) = PairsOf(treerows)

\* ---- C12 ---------------------------------------------------------------
\* C12 as stated: the roots are the parents that are no child, and the names
\* reached from them in the trees are all names of the rows.
C12_ForestCoverage ==
    treerows # <<>> =>
        /\ TopKeys(trees) = RootNames(treerows)
        /\ Reach(trees.subtrees, TopKeys(trees)) = NamesOf(treerows)

\* C12, amended: the roots are the parents that are no child, no root is
\* the child of a row, and the names reached from the roots in the trees
\* are the roots and the names that descend from a root; they are all names
\* of the rows unless some name lies on or below a cycle only.
C12_CoverageOfRooted ==
    treerows # <<>> =>
        /\ TopKeys(trees) = RootNames(treerows)
        /\ \A i \in DOMAIN treerows : treerows[i].CHILD \notin TopKeys(trees)
        /\ Reach(trees.subtrees, TopKeys(trees)) = Rooted(treerows)
        /\ Rooted(treerows) \subseteq NamesOf(treerows)

C12_Witness ==
    /\ PairsOf(treerows) = {<<"W1", "GRP1">>, <<"W1", "GRP2">>, <<"GRP1", "FIELD">>}
    /\ TopKeys(trees) = {"FIELD", "GRP2"}
    /\ Reach(trees.subtrees, TopKeys(trees)) = {"FIELD", "GRP1", "GRP2", "W1"}

\* ---- C13 ---------------------------------------------------------------
\* C13: the list returned has one dict per root, each dict has one key, and
\* the keys of the dicts are the distinct roots.
C13_OneMappingPerRoot ==
    treerows # <<>> =>
        /\ Len(trees.maps) = Cardinality(RootNames(treerows))
        /\ \A i \in DOMAIN trees.maps : Len(trees.maps[i]) = 1
        /\ \A i, j \in DOMAIN trees.maps :
              trees.maps[i][1] = trees.maps[j][1] => i = j
        /\ {trees.maps[i][1] : i \in DOMAIN trees.maps} = RootNames(treerows)

\* ---- C14 ---------------------------------------------------------------
NoEdgeKeyword == \A i \in DOMAIN deck : deck[i].name \notin {"GRUPTREE", "WELSPECS"}

\* C14: gruptree2dict on a deck without GRUPTREE and WELSPECS returns the
\* empty dict, whatever its date argument.
C14_EmptyDictWithoutGruptree ==
    (dictret # NoDict /\ NoEdgeKeyword) => dictret = [kind |-> "dict", trees |-> NoTrees]

\* ---- C15 ---------------------------------------------------------------
HasStart == \E i \in DOMAIN deck : deck[i].name = "START"

\* C15: on a deck with a START keyword, the calls that differ in the
\* startdate alone (not supplied included) and that both return a table
\* return the same table.
C15_StartdateIrrelevantWithStart ==
    (Returned /\ HasStart) =>
        \A n \in DOMAIN prev : prev[n].kind = "DataFrame" => ret = prev[n]

\* ---- C16 ---------------------------------------------------------------
\* The (child, parent) pairs of the records of a keyword.
KwPairs(kw) == {<<kw.recs[k][1][1], kw.recs[k][2][1]>> : k \in DOMAIN kw.recs}

\* The pairs of the rows of an emission of the list of rows.
EmittedPairs(rows, e) == {<<rows[n].CHILD, rows[n].PARENT>> : n \in e.first..e.last}

\* A step of the scan keeps every entry of the accumulator in its place
\* with its key; a tag changes and an entry is added only at a GRUPTREE
\* or WELSPECS with that pair in a record, and the tag is then the name of
\* that keyword; the rows a step dumps hold every pair recorded so far.
C16_GrowStep ==
    pc = "scan" =>
        /\ Len(currentedges') >= Len(currentedges)
        /\ \A i \in DOMAIN currentedges :
              currentedges'[i].edge = currentedges[i].edge
        /\ \A i \in DOMAIN currentedges' :
              (i \notin DOMAIN currentedges \/ currentedges'[i] # currentedges[i]) =>
                  /\ Takes({"GRUPTREE", "WELSPECS"})
                  /\ currentedges'[i].edge \in KwPairs(deck'[pos'])
                  /\ currentedges'[i].value = deck'[pos'].name
        /\ Takes({"GRUPTREE", "WELSPECS"}) =>
              \A pr \in KwPairs(deck'[pos']) :
                  \E i \in DOMAIN currentedges' :
                      currentedges'[i] = [edge |-> pr, value |-> deck'[pos'].name]
        /\ NewRows # <<>> =>
              ScannedPairs \subseteq {<<NewRows[n].CHILD, NewRows[n].PARENT>> : n \in DOMAIN NewRows}

\* C16: during a scan the accumulator only grows or has the tag of an
\* existing pair overwritten by the latest keyword that records the pair;
\* no key is removed, so the old edge of a child that got a new parent is
\* in every later snapshot.
C16_AccumulatorGrows == [][C16_GrowStep]_vars

C16_Witness ==
    /\ Returned /\ calls = 1
    /\ Len(emissions) = 2
    /\ EmittedPairs(ret.rows, emissions[1]) = {<<"W1", "GRP1">>}
    /\ ret.rows[1].TYPE = "GRUPTREE"
    /\ EmittedPairs(ret.rows, emissions[2]) = {<<"W1", "GRP1">>, <<"W1", "GRP2">>}
    /\ \E n \in emissions[2].first..emissions[2].last :
          Triple(ret.rows[n]) = <<"W1", "GRP1", "WELSPECS">>

\* ---- C17 ---------------------------------------------------------------
\* A step that adds rows is a date keyword or the end of the deck; it
\* leaves the rows of before as they are and adds one row per entry of the
\* accumulator, with the child, parent and tag of the entry, in the order
\* of the entries.
C17_SnapshotStep ==
    (pc = "scan" /\ gruptreerecords' # gruptreerecords) =>
        /\ Takes(DateNames) \/ (pc' = "done" /\ pos' = Len(deck'))
        /\ SubSeq(gruptreerecords', 1, Len(gruptreerecords)) = gruptreerecords
        /\ [i \in DOMAIN NewRows |-> Triple(NewRows[i])] = EdgeTriples(currentedges)
        /\ currentedges' = currentedges

\* C17: the rows of one emission are, as (CHILD, PARENT, TYPE), the whole
\* accumulator at that moment, one row per edge in insertion order, the
\* edges unchanged since the emission before included.
C17_FullSnapshot == [][C17_SnapshotStep]_vars

C17_Witness ==
    /\ Returned /\ calls = 1
    /\ Len(emissions) = 2
    /\ Len(deck) = 4 /\ emissions[2].at = 4 /\ deck[4].name = "TSTEP"
    /\ [n \in 1..1 |-> Triple(ret.rows[n])] = << <<"W1", "GRP1", "GRUPTREE">> >>
    /\ emissions[2].last - emissions[2].first = 1
    /\ [n \in 1..2 |-> Triple(ret.rows[emissions[2].first + n - 1])] =
          << <<"W1", "GRP1", "GRUPTREE">>, <<"W2", "GRP1", "WELSPECS">> >>

\* ---- C18 ---------------------------------------------------------------
\* The keyword of the last emission of the scan, 0 if there was none.
LastEmissionAt == IF emissions = <<>> THEN 0 ELSE emissions[Len(emissions)].at

\* A change keyword is among the keywords i+1 .. k-1 of the deck scanned.
ChangeBetween(i, k) ==
    \E j \in Scanned : i < j /\ j < k /\ deck[j].name \in ChangeNames

\* A date keyword that adds rows comes after a change keyword scanned since
\* the last emission, and leaves the three flags cleared.
C18_EmitStep ==
    (Takes(DateNames) /\ gruptreerecords' # gruptreerecords) =>
        /\ ChangeBetween(LastEmissionAt, pos + 1)
        /\ ~found_gruptree' /\ ~found_welspecs' /\ ~found_grupnet'

\* Every emission has a change keyword between it and the emission before.
C18_Spaced ==
    \A n \in DOMAIN emissions :
        ChangeBetween(IF n = 1 THEN 0 ELSE emissions[n - 1].at, emissions[n].at)

\* Of two date keywords without a change keyword between them the second
\* emits nothing.
C18_SecondSilent ==
    \A i, k \in Scanned :
        (i < k /\ deck[i].name \in DateNames /\ deck[k].name \in DateNames
            /\ ~ChangeBetween(i, k)) =>
                \A n \in DOMAIN emissions : emissions[n].at # k

\* The first keywords of the maximal runs of change keywords scanned.
RunStarts ==
    {i \in Scanned : /\ deck[i].name \in ChangeNames
                     /\ (i = 1 \/ deck[i - 1].name \notin ChangeNames)}

\* C18: a date keyword emits rows only after a GRUPTREE, WELSPECS or
\* GRUPNET scanned since the emission before it, and its emission clears
\* the three flags; of two date keywords with no such keyword between them
\* at most the first emits; there are no more emissions than maximal runs
\* of change keywords.
C18_NoEmissionWithoutChange ==
    /\ [][C18_EmitStep]_vars
    /\ [](C18_Spaced /\ C18_SecondSilent /\ Len(emissions) <= Cardinality(RunStarts))

C18_Witness ==
    /\ pc = "done" /\ Returned
    /\ Len(emissions) = 2
    /\ Cardinality(RunStarts) = 2
    /\ emissions[2].at = Len(deck) + 1
    /\ \E i \in Scanned :
          /\ deck[i].name \in ChangeNames
          /\ i + 2 \in Scanned
          /\ deck[i + 1].name = "DATES" /\ deck[i + 2].name = "TSTEP"
          /\ emissions[1].at = i + 1

\* ---- C19 ---------------------------------------------------------------
\* The last of the records with the name.
LastRecOf(recs, name) ==
    recs[CHOOSE i \in DOMAIN recs :
            /\ recs[i].NAME = <<name>>
            /\ \A j \in DOMAIN recs : recs[j].NAME = <<name>> => j <= i]

\* The attribute fields the GRUPNET records give a name: none without a
\* record of the name, else the fields and values of its last record.
AttrsAt(recs, name) ==
    IF \A i \in DOMAIN recs : recs[i].NAME # <<name>> THEN NoAttrs
    ELSE [k \in LastFields(recs, name) |-> LastRecOf(recs, name)[k][1]]

\* The rows a step dumps carry the attributes that the GRUPNET records
\* scanned before the dump give their CHILD, whenever the edge was recorded.
C19_JoinStep ==
    \A i \in DOMAIN NewRows :
        NewRows[i].ATTRS = AttrsAt(ScannedNetRecs, NewRows[i].CHILD)

\* C19: the attribute fields of a row are those of the attribute table for
\* its CHILD when the row is emitted: a GRUPNET scanned after the edge was
\* recorded and before the emission shows in the row, and the row of a
\* child without GRUPNET record has no attribute fields.
C19_AttributesAtEmission == [][C19_JoinStep]_vars

C19_Witness ==
    /\ Returned
    /\ Len(deck) >= 3
    /\ deck[1].name = "GRUPTREE"
    /\ KwPairs(deck[1]) = {<<"GRP1", "FIELD">>, <<"GRP2", "FIELD">>}
    /\ deck[2].name = "GRUPNET"
    /\ deck[2].recs = <<NetRec("GRP1", <<>>, <<5>>)>>
    /\ deck[3].name = "DATES"
    /\ emissions[1].at = 3
    /\ \E n, m \in emissions[1].first..emissions[1].last :
          /\ ret.rows[n].CHILD = "GRP1" /\ ret.rows[n].ATTRS = [ALQ |-> 5]
          /\ ret.rows[m].CHILD = "GRP2" /\ ret.rows[m].ATTRS = NoAttrs

\* ---- C20 ---------------------------------------------------------------
\* C20: every row of the table returned has a date, the rows of the dump
\* after the last keyword included, with or without startdate and date
\* keywords.
C20_EveryRowDated ==
    Returned => \A n \in DOMAIN ret.rows : ret.rows[n].DATE # NaT

\* ---- C21 ---------------------------------------------------------------
\* welspecs=False was given, to deck2df or to gruptree2dict.
WelspecsOff == welspecs = FALSE \/ startdate = Bool(FALSE)

\* The pairs of the GRUPTREE records of the deck.
GruptreePairs ==
    UNION {KwPairs(deck[i]) : i \in {j \in DOMAIN deck : deck[j].name = "GRUPTREE"}}

\* A WELSPECS keyword changes no local of the scan.
C21_FrameStep ==
    (WelspecsOff /\ Takes({"WELSPECS"})) => UNCHANGED locals

\* No edge, flag or row comes from WELSPECS, and the trees gruptree2dict
\* returns hold pairs of GRUPTREE records only.
C21_NoWells ==
    WelspecsOff =>
        /\ \A i \in DOMAIN currentedges : currentedges[i].value # "WELSPECS"
        /\ ~found_welspecs
        /\ \A n \in DOMAIN gruptreerecords : gruptreerecords[n].TYPE # "WELSPECS"
        /\ \A n \in DOMAIN ret.rows : ret.rows[n].TYPE # "WELSPECS"
        /\ Nestings(dictret.trees) \subseteq GruptreePairs

\* The part of C21 on deck2df: with welspecs=False given to deck2df a
\* WELSPECS keyword changes nothing, so the scan goes as on the deck
\* without its WELSPECS keywords.
C21_Deck2dfIgnoresWelspecs ==
    [][~ViaDict => C21_FrameStep]_vars /\ [](~ViaDict => C21_NoWells)

\* C21: with welspecs=False, given to deck2df or to gruptree2dict, a
\* WELSPECS keyword leaves the scan as it is: no edge, no flag, no
\* emission, no row of TYPE WELSPECS, the result of the deck without its
\* WELSPECS keywords, and no well edge in what gruptree2dict returns.
C21_WelspecsIgnored ==
    [][C21_FrameStep]_vars /\ []C21_NoWells

====
